---- MODULE Spec2Model ----
(***************************************************************************)
(* Process construction and execution harness of the Windows x86-64        *)
(* user-mode emulator (src/src/windows_emulator/main.cpp).                 *)
(*                                                                         *)
(* Guest addresses: the guest address space is 47 bits wide, which TLC's   *)
(* integers cannot hold, so it is modelled at a reduced scale.  One page   *)
(* is PageSize address units, the named regions keep their order           *)
(* (GS segment < KUSD < image area < stack, the stack ending at the top of *)
(* the address space) and their page alignment, and every size is given in *)
(* the same units.  A guest structure field is one cell of guest memory at *)
(* the address of the structure that holds it.                             *)
(***************************************************************************)
EXTENDS Integers, Sequences, FiniteSets, TLC

VARIABLES
    pc,                 \* position of the host thread in main()/run()
    strict_io,          \* emulator build: do write/protect on unmapped memory throw
    regions,            \* ranges mapped by allocate_memory: [base, size, tag]
    prot,               \* page -> permissions (a set) or Unmapped
    cells,              \* guest memory: control-structure field -> value
    regs,               \* guest registers rsp, rcx, rdx, rip and the GS base MSR
    watermark,          \* bump offset of context.gs_segment
    context,            \* process_context: guest addresses of teb, peb, ...
    binary,             \* context.executable / context.ntdll (mapped_binary)
    module_data,        \* the PE image parsed by the map_module call just made
    call_log,           \* emulator calls made by the map_module call just made
    io_failed,          \* input files whose read failed (load_file got no bytes)
    exception,          \* message of the exception in flight, "" when none
    exit_code,          \* process exit code, NoExit while running
    printed,            \* line main() printed with puts, "" when none
    syscall_hooks,      \* number of installed SYSCALL instruction hooks
    pending_hooks,      \* hook callbacks still to run for the current SYSCALL
    syscalls_executed,  \* SYSCALL instructions the guest has executed
    handle_calls,       \* invocations of handle_syscall: <<emulator, context>>
    members_,           \* type_info<T>::members_ (offset -> name)
    fields,             \* the reflected fields of T: <<[offset, name], ...>>
    ti_pc,              \* type_info<T>: "new", "built" or "asked"
    ti_offset,          \* argument of the last get_member_name call
    ti_result           \* value the last get_member_name call returned

vars == <<pc, strict_io, regions, prot, cells, regs, watermark, context, binary,
          module_data, call_log, io_failed, exception, exit_code, printed,
          syscall_hooks, pending_hooks, syscalls_executed, handle_calls,
          members_, fields, ti_pc, ti_offset, ti_result>>

run_vars == <<pc, strict_io, regions, prot, cells, regs, watermark, context,
              binary, module_data, call_log, io_failed, exception, exit_code,
              printed, syscall_hooks, pending_hooks, syscalls_executed,
              handle_calls>>

ti_vars == <<members_, fields, ti_pc, ti_offset, ti_result>>

(***************************************************************************)
(* Bounds of the model.                                                    *)
(***************************************************************************)
MaxSections == 2        \* section headers per generated image
MaxSyscalls == 2        \* SYSCALL instructions a modelled guest run executes
MaxOffset == 4          \* largest field offset of a reflected type

(***************************************************************************)
(* Address space and the constants of main.cpp, at the model's scale.      *)
(***************************************************************************)
PageSize == 2

AddressSpaceEnd == 14 * PageSize

GS_SEGMENT_ADDR == 3 * PageSize

GS_SEGMENT_SIZE == 4 * PageSize

STACK_SIZE == 2 * PageSize

STACK_ADDRESS == AddressSpaceEnd - STACK_SIZE

KUSD_ADDRESS == 7 * PageSize

\* sizeof of the guest structures, in address units
SIZEOF_KUSER_SHARED_DATA == 1

SIZEOF_TEB == 2

SIZEOF_PEB == 1

SIZEOF_RTL_USER_PROCESS_PARAMETERS == 1

SIZEOF_UNICODE_BUFFER == 1

SIZEOF_CONTEXT == 1

Pages == 0 .. (AddressSpaceEnd \div PageSize) - 1

Unmapped == {"unmapped"}

NoExit == 0 - 1

\* a field overwritten with bytes of a file: none of the values the code stores
Clobbered == 0 - 1

Files == {"executable", "ntdll"}

page_align_up(n) == ((n + PageSize - 1) \div PageSize) * PageSize

PageAligned(n) == n % PageSize = 0

\* the pages the byte range [addr, addr + size) touches
PagesOf(addr, size) ==
    IF size = 0 THEN {}
    ELSE {p \in 0 .. ((addr + size - 1) \div PageSize) : p >= addr \div PageSize}

(***************************************************************************)
(* The CPU emulator collaborator.  An emulator state is a record           *)
(* [regions, prot, cells].                                                 *)
(***************************************************************************)
RangeFree(em, addr, size) ==
    /\ size > 0
    /\ addr + size <= AddressSpaceEnd
    /\ \A p \in PagesOf(addr, size) : em.prot[p] = Unmapped

\* allocate_memory(addr, size, perms): maps the range; fails if it overlaps a
\* mapped range or is unavailable
allocate_memory(em, addr, size, perms, tag) ==
    IF RangeFree(em, addr, size)
    THEN [ok |-> TRUE,
          em |-> [em EXCEPT
                    !.regions = @ \cup {[base |-> addr, size |-> size, tag |-> tag]},
                    !.prot = [p \in Pages |->
                                IF p \in PagesOf(addr, size) THEN perms ELSE @[p]]]]
    ELSE [ok |-> FALSE, em |-> em]

\* find_free_allocation_base(size): the values the call may return: any unused
\* aligned base that can host size bytes; the null address when there is none
find_free_allocation_base(em, size) ==
    LET free == {b \in 0 .. AddressSpaceEnd - 1 :
                    PageAligned(b) /\ RangeFree(em, b, size)}
    IN  IF free = {} THEN {0} ELSE free

RangeMapped(em, addr, size) ==
    /\ addr + size <= AddressSpaceEnd
    /\ \A p \in PagesOf(addr, size) : em.prot[p] # Unmapped

\* the address of each control-structure field, given the process_context
CellAddress(ctx, c) ==
    CASE c \in {"TEB.NtTib.StackLimit", "TEB.NtTib.StackBase", "TEB.NtTib.Self",
                "TEB.ProcessEnvironmentBlock"} -> ctx.teb
      [] c \in {"PEB.ImageBaseAddress", "PEB.ProcessHeap", "PEB.ProcessHeaps",
                "PEB.ProcessParameters"} -> ctx.peb
      [] OTHER -> ctx.process_params

\* write_memory(addr, buf) of size bytes of a file: the bytes land on whatever is
\* mapped there; writing to unmapped memory throws in a strict emulator and is
\* dropped by a lenient one
write_memory(em, ctx, strict, addr, size) ==
    IF size > 0 /\ strict /\ ~RangeMapped(em, addr, size)
    THEN [ok |-> FALSE, em |-> em]
    ELSE [ok |-> TRUE,
          em |-> [em EXCEPT !.cells =
                     [c \in DOMAIN @ |->
                        IF /\ CellAddress(ctx, c) >= addr
                           /\ CellAddress(ctx, c) < addr + size
                        THEN Clobbered ELSE @[c]]]]

\* protect_memory(addr, size, perms): changes the protection of the mapped pages
\* of the range; a range with unmapped pages throws in a strict emulator
protect_memory(em, strict, addr, size, perms) ==
    IF size > 0 /\ strict /\ ~RangeMapped(em, addr, size)
    THEN [ok |-> FALSE, em |-> em]
    ELSE [ok |-> TRUE,
          em |-> [em EXCEPT !.prot =
                     [p \in Pages |->
                        IF p \in PagesOf(addr, size) /\ @[p] # Unmapped
                        THEN perms ELSE @[p]]]]

(***************************************************************************)
(* PE images.  An image is the parsed view of a file's bytes:              *)
(* [ImageBase, SizeOfImage, DllCharacteristics, SizeOfHeaders, sections,   *)
(*  export_directory].                                                     *)
(***************************************************************************)
IMAGE_DLLCHARACTERISTICS_DYNAMIC_BASE == "DYNAMIC_BASE"

IMAGE_SCN_MEM_EXECUTE == "MEM_EXECUTE"

IMAGE_SCN_MEM_READ == "MEM_READ"

IMAGE_SCN_MEM_WRITE == "MEM_WRITE"

NoBinary == [image_base |-> 0, size_of_image |-> 0,
             exports |-> [n \in {} |-> 0], mapped |-> FALSE]

Min(a, b) == IF a < b THEN a ELSE b

Max(a, b) == IF a > b THEN a ELSE b

LogEntry(call, addr, size, ok) ==
    [call |-> call, addr |-> addr, size |-> size, ok |-> ok]

\* SectionPermissions with the WRITE test dropped
SectionPermissionsNoWrite(section) ==
    (IF IMAGE_SCN_MEM_EXECUTE \in section.Characteristics THEN {"exec"} ELSE {})
    \cup (IF IMAGE_SCN_MEM_READ \in section.Characteristics THEN {"read"} ELSE {})

\* lines 116-131: the permissions derived from a section's Characteristics
SectionPermissions(section) ==
    (IF IMAGE_SCN_MEM_EXECUTE \in section.Characteristics THEN {"exec"} ELSE {})
    \cup (IF IMAGE_SCN_MEM_READ \in section.Characteristics THEN {"read"} ELSE {})
    \cup (IF IMAGE_SCN_MEM_WRITE \in section.Characteristics THEN {"write"} ELSE {})

\* line 133
SizeOfSection(section) ==
    page_align_up(Max(section.SizeOfRawData, section.VirtualSize))

\* lines 105-136: the loop over the section headers, from header i on
RECURSIVE MapSections(_, _, _, _, _, _, _)
MapSections(em, ctx, strict, image_base, sections, i, log) ==
    IF i > Len(sections) THEN [ok |-> TRUE, em |-> em, log |-> log]
    ELSE
      LET section == sections[i]
          target_ptr == image_base + section.VirtualAddress
          size_of_data == Min(section.SizeOfRawData, section.VirtualSize)
          copy == IF section.SizeOfRawData > 0
                  THEN write_memory(em, ctx, strict, target_ptr, size_of_data)
                  ELSE [ok |-> TRUE, em |-> em]
          log1 == IF section.SizeOfRawData > 0
                  THEN Append(log, LogEntry("write_memory", target_ptr,
                                            size_of_data, copy.ok))
                  ELSE log
          protect == protect_memory(copy.em, strict, target_ptr,
                                    SizeOfSection(section),
                                    SectionPermissions(section))
          log2 == Append(log1, LogEntry("protect_memory", target_ptr,
                                        SizeOfSection(section), protect.ok))
      IN  IF ~copy.ok THEN [ok |-> FALSE, em |-> em, log |-> log1]
          ELSE IF ~protect.ok THEN [ok |-> FALSE, em |-> copy.em, log |-> log2]
          ELSE MapSections(protect.em, ctx, strict, image_base, sections,
                           i + 1, log2)

\* lines 154-161: the loop over the export names, from name i on
RECURSIVE CollectExports(_, _, _, _)
CollectExports(image_base, dir, i, exports) ==
    IF i > Len(dir.names) THEN exports
    ELSE
      LET function_name == dir.names[i]
          function_rva == dir.functions[dir.ordinals[i] + 1]
          function_address == image_base + function_rva
      IN  CollectExports(image_base, dir, i + 1,
              [n \in DOMAIN exports \cup {function_name} |->
                  IF n = function_name THEN function_address ELSE exports[n]])

\* lines 138-142: the export directory is absent or empty
NoExportDirectory(dir) == dir.VirtualAddress = 0 \/ dir.Size = 0

\* MapFails without the DYNAMIC_BASE test: every image is relocated
MapFailsIgnoringDynamicBase(img, retry_ok) == ~retry_ok

\* lines 90-93: after the preferred base failed, the mapping must be given up
MapFails(img, retry_ok) ==
    IMAGE_DLLCHARACTERISTICS_DYNAMIC_BASE \notin img.DllCharacteristics
      \/ ~retry_ok

\* lines 73-164: map_module.  free_base is what find_free_allocation_base
\* returns if it is asked.  The result is [thrown, em, binary, log].
map_module(em, ctx, strict, img, free_base, tag) ==
    LET preferred == allocate_memory(em, img.ImageBase, img.SizeOfImage,
                                     {"read"}, tag)
        dynamic == IMAGE_DLLCHARACTERISTICS_DYNAMIC_BASE \in img.DllCharacteristics
        retry == allocate_memory(em, free_base, img.SizeOfImage, {"read"}, tag)
        image_base == IF preferred.ok THEN img.ImageBase ELSE free_base
        log0 == <<LogEntry("allocate_memory", img.ImageBase, img.SizeOfImage,
                           preferred.ok)>>
                \o (IF preferred.ok THEN <<>>
                    ELSE <<LogEntry("find_free_allocation_base", free_base,
                                    img.SizeOfImage, TRUE)>>)
                \o (IF ~preferred.ok /\ dynamic
                    THEN <<LogEntry("allocate_memory", free_base,
                                    img.SizeOfImage, retry.ok)>>
                    ELSE <<>>)
        em0 == IF preferred.ok THEN preferred.em
               ELSE IF dynamic THEN retry.em ELSE em
        headers == write_memory(em0, ctx, strict, image_base, img.SizeOfHeaders)
        log1 == Append(log0, LogEntry("write_memory", image_base,
                                      img.SizeOfHeaders, headers.ok))
        secs == MapSections(headers.em, ctx, strict, image_base, img.sections,
                            1, log1)
        dir == img.export_directory
        exports == IF NoExportDirectory(dir) THEN [n \in {} |-> 0]
                   ELSE CollectExports(image_base, dir, 1, [n \in {} |-> 0])
    IN  IF ~preferred.ok /\ MapFails(img, retry.ok)
        THEN [thrown |-> "Failed to map binary", em |-> em0,
              binary |-> NoBinary, log |-> log0]
        ELSE IF ~headers.ok
        THEN [thrown |-> "emulator error", em |-> em0,
              binary |-> NoBinary, log |-> log1]
        ELSE IF ~secs.ok
        THEN [thrown |-> "emulator error", em |-> secs.em,
              binary |-> NoBinary, log |-> secs.log]
        ELSE [thrown |-> "", em |-> secs.em,
              binary |-> [image_base |-> image_base,
                          size_of_image |-> img.SizeOfImage,
                          exports |-> exports, mapped |-> TRUE],
              log |-> secs.log]

(***************************************************************************)
(* The images the input files may hold.                                    *)
(***************************************************************************)
TextSection == [VirtualAddress |-> 0, VirtualSize |-> 2, SizeOfRawData |-> 2,
                Characteristics |-> {IMAGE_SCN_MEM_EXECUTE, IMAGE_SCN_MEM_READ}]

BssSection == [VirtualAddress |-> PageSize, VirtualSize |-> 2, SizeOfRawData |-> 0,
               Characteristics |-> {IMAGE_SCN_MEM_READ, IMAGE_SCN_MEM_WRITE}]

PaddedSection == [VirtualAddress |-> 0, VirtualSize |-> 1, SizeOfRawData |-> 3,
                  Characteristics |-> {}]

FarSection == [VirtualAddress |-> 2 * PageSize, VirtualSize |-> 1,
               SizeOfRawData |-> 1, Characteristics |-> {IMAGE_SCN_MEM_READ}]

SectionChoices == {TextSection, BssSection, PaddedSection, FarSection}

RECURSIVE SeqsUpTo(_, _)
SeqsUpTo(S, n) ==
    IF n = 0 THEN {<<>>}
    ELSE LET shorter == SeqsUpTo(S, n - 1)
         IN  shorter \cup {Append(q, x) : q \in shorter, x \in S}

SectionLists == SeqsUpTo(SectionChoices, MaxSections)

NoExports == [VirtualAddress |-> 0, Size |-> 0, names |-> <<>>,
              ordinals |-> <<>>, functions |-> <<>>]

ExportDirectory(names, ordinals, functions) ==
    [VirtualAddress |-> 1, Size |-> 1, names |-> names, ordinals |-> ordinals,
     functions |-> functions]

NtdllExports ==
    ExportDirectory(<<"LdrInitializeThunk", "RtlUserThreadStart">>, <<0, 1>>,
                    <<0, 1>>)

ExportTables ==
    { NoExports,
      NtdllExports,
      ExportDirectory(<<"LdrInitializeThunk">>, <<0>>, <<1>>),
      ExportDirectory(<<"RtlUserThreadStart">>, <<0>>, <<1>>),
      ExportDirectory(<<"LdrInitializeThunk", "RtlUserThreadStart",
                        "RtlImageNtHeaderEx">>, <<0, 1, 0>>, <<1, 5>>) }

Image(base, size, dll, headers, sections, dir) ==
    [ImageBase |-> base, SizeOfImage |-> size, DllCharacteristics |-> dll,
     SizeOfHeaders |-> headers, sections |-> sections, export_directory |-> dir]

\* preferred bases: below the GS segment, on the KUSD page, in the free area
ImageBases == {PageSize, KUSD_ADDRESS, 8 * PageSize}

\* one page, one and a half pages, four pages
ImageSizes == {PageSize, PageSize + 1, 4 * PageSize}

Images ==
    {Image(b, n, d, 1, <<TextSection>>, NtdllExports) :
        b \in ImageBases, n \in ImageSizes,
        d \in {{}, {IMAGE_DLLCHARACTERISTICS_DYNAMIC_BASE}}}
    \cup {Image(PageSize, 2 * PageSize, {IMAGE_DLLCHARACTERISTICS_DYNAMIC_BASE},
                1, s, NtdllExports) : s \in SectionLists}
    \cup {Image(8 * PageSize, PageSize, {}, 1, <<>>, t) : t \in ExportTables}

(***************************************************************************)
(* Process construction.                                                   *)
(***************************************************************************)
CellNames ==
    {"TEB.NtTib.StackLimit", "TEB.NtTib.StackBase", "TEB.NtTib.Self",
     "TEB.ProcessEnvironmentBlock", "PEB.ImageBaseAddress", "PEB.ProcessHeap",
     "PEB.ProcessHeaps", "PEB.ProcessParameters",
     "RTL_USER_PROCESS_PARAMETERS.Flags"}

PROCESS_PARAMETERS_FLAGS == 24577

NoContext == [teb |-> 0, peb |-> 0, process_params |-> 0, kusd |-> 0,
              image_path |-> 0, command_line |-> 0]

Emulator == [regions |-> regions, prot |-> prot, cells |-> cells]

\* emulator_allocator::reserve<T>(): the address handed out and the watermark
\* after it
reserve(wm, size) ==
    [ok |-> wm + size <= GS_SEGMENT_SIZE, addr |-> GS_SEGMENT_ADDR + wm,
     wm |-> wm + size]

\* lines 24-30
setup_stack(em, stack_base, stack_size) ==
    allocate_memory(em, stack_base, stack_size, {"read", "write"}, "stack").em

\* lines 51-71
setup_kusd(em) ==
    allocate_memory(em, KUSD_ADDRESS, page_align_up(SIZEOF_KUSER_SHARED_DATA),
                    {"read"}, "kusd").em

\* lines 32-49
setup_gs_segment(em, segment_base, size) ==
    allocate_memory(em, segment_base, size, {"read", "write"}, "gs").em

\* lines 166-206: setup_context
SetupContext ==
    /\ pc = "start"
    /\ LET em0 == setup_stack(Emulator, STACK_ADDRESS, STACK_SIZE)
           em1 == setup_kusd(em0)
           em2 == setup_gs_segment(em1, GS_SEGMENT_ADDR, GS_SEGMENT_SIZE)
           teb == reserve(0, SIZEOF_TEB)
           peb == reserve(teb.wm, SIZEOF_PEB)
           params == reserve(peb.wm, SIZEOF_RTL_USER_PROCESS_PARAMETERS)
           path == reserve(params.wm, SIZEOF_UNICODE_BUFFER)
           cmdline == reserve(path.wm, SIZEOF_UNICODE_BUFFER)
       IN  /\ regions' = em2.regions
           /\ prot' = em2.prot
           /\ regs' = [regs EXCEPT !.rsp = STACK_ADDRESS + STACK_SIZE,
                                   !.gs_base = GS_SEGMENT_ADDR]
           /\ context' = [teb |-> teb.addr, peb |-> peb.addr,
                          process_params |-> params.addr, kusd |-> KUSD_ADDRESS,
                          image_path |-> path.addr, command_line |-> cmdline.addr]
           /\ watermark' = cmdline.wm
           /\ cells' = [cells EXCEPT
                  !["TEB.NtTib.StackLimit"] = STACK_ADDRESS,
                  !["TEB.NtTib.StackBase"] = STACK_ADDRESS + STACK_SIZE,
                  !["TEB.NtTib.Self"] = teb.addr,
                  !["TEB.ProcessEnvironmentBlock"] = peb.addr,
                  !["PEB.ImageBaseAddress"] = 0,
                  !["PEB.ProcessHeap"] = 0,
                  !["PEB.ProcessHeaps"] = 0,
                  !["PEB.ProcessParameters"] = params.addr,
                  !["RTL_USER_PROCESS_PARAMETERS.Flags"] = PROCESS_PARAMETERS_FLAGS]
           /\ IF cmdline.ok
              THEN pc' = "context_ready" /\ exception' = exception
              ELSE pc' = "throwing" /\ exception' = "bump region exhausted"
    /\ UNCHANGED <<strict_io, binary, module_data, call_log, io_failed, exit_code,
                   printed, syscall_hooks, pending_hooks, syscalls_executed,
                   handle_calls, ti_vars>>

\* lines 208-218: load_file and map_file.  A file that cannot be read yields an
\* empty buffer and no error; map_module then parses bytes that are not there,
\* which either crashes the process or yields arbitrary header values.
MapFileInto(file, next_pc) ==
    \E read_ok \in BOOLEAN, img \in Images :
      \E free_base \in
            (IF RangeFree(Emulator, img.ImageBase, img.SizeOfImage) THEN {0}
             ELSE find_free_allocation_base(Emulator, img.SizeOfImage)) :
        LET r == map_module(Emulator, context, strict_io, img, free_base, file)
        IN  /\ regions' = r.em.regions
            /\ prot' = r.em.prot
            /\ cells' = r.em.cells
            /\ module_data' = img
            /\ call_log' = r.log
            /\ io_failed' = IF read_ok THEN io_failed ELSE io_failed \cup {file}
            /\ binary' = [binary EXCEPT ![file] = r.binary]
            /\ exception' = r.thrown
            /\ pc' = IF r.thrown = "" THEN next_pc ELSE "throwing"

MapFileCrashes(file) ==
    /\ io_failed' = io_failed \cup {file}
    /\ pc' = "crashed"
    /\ UNCHANGED <<regions, prot, cells, module_data, call_log, binary, exception>>

\* line 293
MapExecutable ==
    /\ pc = "context_ready"
    /\ \/ MapFileInto("executable", "executable_mapped")
       \/ MapFileCrashes("executable")
    /\ UNCHANGED <<strict_io, regs, watermark, context, exit_code, printed,
                   syscall_hooks, pending_hooks, syscalls_executed, handle_calls,
                   ti_vars>>

NoImage == Image(0, 0, {}, 0, <<>>, NoExports)

\* lines 295-298
SetImageBase ==
    /\ pc = "executable_mapped"
    /\ cells' = [cells EXCEPT
                   !["PEB.ImageBaseAddress"] = binary["executable"].image_base]
    /\ module_data' = NoImage
    /\ call_log' = <<>>
    /\ pc' = "image_base_set"
    /\ UNCHANGED <<strict_io, regions, prot, regs, watermark, context, binary,
                   io_failed, exception, exit_code, printed, syscall_hooks,
                   pending_hooks, syscalls_executed, handle_calls, ti_vars>>

\* line 300
MapNtdll ==
    /\ pc = "image_base_set"
    /\ \/ MapFileInto("ntdll", "ntdll_mapped")
       \/ MapFileCrashes("ntdll")
    /\ UNCHANGED <<strict_io, regs, watermark, context, exit_code, printed,
                   syscall_hooks, pending_hooks, syscalls_executed, handle_calls,
                   ti_vars>>

(***************************************************************************)
(* run(): entry points, hooks, emulation.                                  *)
(***************************************************************************)
\* lines 302-303: std::map::at throws std::out_of_range for a missing name
ResolveEntries ==
    /\ pc = "ntdll_mapped"
    /\ LET exports == binary["ntdll"].exports
       IN  IF /\ "LdrInitializeThunk" \in DOMAIN exports
              /\ "RtlUserThreadStart" \in DOMAIN exports
           THEN /\ pc' = "entries_resolved"
                /\ exception' = exception
           ELSE /\ pc' = "throwing"
                /\ exception' = "out_of_range"
    /\ module_data' = NoImage
    /\ call_log' = <<>>
    /\ UNCHANGED <<strict_io, regions, prot, cells, regs, watermark, context,
                   binary, io_failed, exit_code, printed, syscall_hooks,
                   pending_hooks, syscalls_executed, handle_calls, ti_vars>>

\* the SYSCALL hook installed twice
SyscallHooksInstalledTwice == 1 + 1

\* lines 329-332: the SYSCALL instruction hooks run() installs
SyscallHooksInstalled == 1

\* watch_object reserving a shadow copy of the watched object
WatchObjectReservesCopy == SIZEOF_PEB

\* lines 334-337: what watch_object reserves in the GS bump region
WatchObjectReserves == 0

\* lines 308-358: export traces, the SYSCALL hook, the structure watches and the
\* global execution trace
InstallHooks ==
    /\ pc = "entries_resolved"
    /\ syscall_hooks' = syscall_hooks + SyscallHooksInstalled
    /\ watermark' = watermark + WatchObjectReserves
    /\ pc' = "hooks_installed"
    /\ UNCHANGED <<strict_io, regions, prot, cells, regs, context, binary,
                   module_data, call_log, io_failed, exception, exit_code,
                   printed, pending_hooks, syscalls_executed, handle_calls,
                   ti_vars>>

\* lines 360-363: the CONTEXT handed to LdrInitializeThunk
ReserveExecutionContext ==
    /\ pc = "hooks_installed"
    /\ LET execution_context == reserve(watermark, SIZEOF_CONTEXT)
       IN  /\ watermark' = execution_context.wm
           /\ regs' = [regs EXCEPT !.rcx = execution_context.addr,
                                   !.rdx = binary["ntdll"].image_base]
           /\ IF execution_context.ok
              THEN pc' = "ready" /\ exception' = exception
              ELSE pc' = "throwing" /\ exception' = "bump region exhausted"
    /\ UNCHANGED <<strict_io, regions, prot, cells, context, binary, module_data,
                   call_log, io_failed, exit_code, printed, syscall_hooks,
                   pending_hooks, syscalls_executed, handle_calls, ti_vars>>

\* line 367: emu->start(entry1)
StartEmulation ==
    /\ pc = "ready"
    /\ regs' = [regs EXCEPT !.rip = binary["ntdll"].exports["LdrInitializeThunk"]]
    /\ pc' = "running"
    /\ UNCHANGED <<strict_io, regions, prot, cells, watermark, context, binary,
                   module_data, call_log, io_failed, exception, exit_code,
                   printed, syscall_hooks, pending_hooks, syscalls_executed,
                   handle_calls, ti_vars>>

\* hook_instruction: the guest executes a SYSCALL; the emulator runs every
\* installed SYSCALL hook once before it resumes
GuestSyscall ==
    /\ pc = "running"
    /\ syscalls_executed < MaxSyscalls
    /\ syscalls_executed' = syscalls_executed + 1
    /\ pending_hooks' = syscall_hooks
    /\ pc' = IF syscall_hooks > 0 THEN "in_syscall_hook" ELSE "running"
    /\ UNCHANGED <<strict_io, regions, prot, cells, regs, watermark, context,
                   binary, module_data, call_log, io_failed, exception, exit_code,
                   printed, syscall_hooks, handle_calls, ti_vars>>

\* lines 329-332: the hook body, handle_syscall(*emu, context)
SyscallHook ==
    /\ pc = "in_syscall_hook"
    /\ handle_calls' = Append(handle_calls, <<"emu", context>>)
    /\ pending_hooks' = pending_hooks - 1
    /\ pc' = IF pending_hooks > 1 THEN "in_syscall_hook" ELSE "running"
    /\ UNCHANGED <<strict_io, regions, prot, cells, regs, watermark, context,
                   binary, module_data, call_log, io_failed, exception, exit_code,
                   printed, syscall_hooks, syscalls_executed, ti_vars>>

\* start returns: the guest halted
GuestHalts ==
    /\ pc = "running"
    /\ pc' = "start_returned"
    /\ UNCHANGED <<strict_io, regions, prot, cells, regs, watermark, context,
                   binary, module_data, call_log, io_failed, exception, exit_code,
                   printed, syscall_hooks, pending_hooks, syscalls_executed,
                   handle_calls, ti_vars>>

\* lines 369-373: start throws; run() prints the instruction pointer and rethrows
GuestFaults ==
    /\ pc = "running"
    /\ exception' = "emulator fault"
    /\ pc' = "throwing"
    /\ UNCHANGED <<strict_io, regions, prot, cells, regs, watermark, context,
                   binary, module_data, call_log, io_failed, exit_code, printed,
                   syscall_hooks, pending_hooks, syscalls_executed, handle_calls,
                   ti_vars>>

\* lines 375, 383-384: run() returns, main returns 0
MainReturns ==
    /\ pc = "start_returned"
    /\ exit_code' = 0
    /\ pc' = "exited"
    /\ UNCHANGED <<strict_io, regions, prot, cells, regs, watermark, context,
                   binary, module_data, call_log, io_failed, exception, printed,
                   syscall_hooks, pending_hooks, syscalls_executed, handle_calls,
                   ti_vars>>

\* lines 386-395: main catches std::exception, prints what() and returns 1
MainCatches ==
    /\ pc = "throwing"
    /\ printed' = exception
    /\ exit_code' = 1
    /\ pc' = "exited"
    /\ UNCHANGED <<strict_io, regions, prot, cells, regs, watermark, context,
                   binary, module_data, call_log, io_failed, exception,
                   syscall_hooks, pending_hooks, syscalls_executed, handle_calls,
                   ti_vars>>

(***************************************************************************)
(* type_info<T>.                                                           *)
(***************************************************************************)
FieldNames == <<"Reserved", "Self", "Flags", "Length", "Buffer">>

\* the field lists reflection can yield: offsets strictly increasing
RECURSIVE FieldsOf(_, _, _)
FieldsOf(offsets, o, acc) ==
    IF o > MaxOffset THEN acc
    ELSE FieldsOf(offsets, o + 1,
                  IF o \in offsets
                  THEN Append(acc, [offset |-> o,
                                    name |-> FieldNames[(Len(acc) % 5) + 1]])
                  ELSE acc)

FieldLists == {FieldsOf(offsets, 0, <<>>) : offsets \in SUBSET (0 .. MaxOffset)}

\* lines 228-234: members_[member_offset] = member_name, field by field
RECURSIVE CollectMembers(_, _, _)
CollectMembers(fs, i, members) ==
    IF i > Len(fs) THEN members
    ELSE CollectMembers(fs, i + 1,
            [o \in DOMAIN members \cup {fs[i].offset} |->
                IF o = fs[i].offset THEN fs[i].name ELSE members[o]])

\* the keys of a std::map in iteration order
RECURSIVE SortedKeys(_)
SortedKeys(S) ==
    IF S = {} THEN <<>>
    ELSE LET least == CHOOSE k \in S : \A j \in S : k <= j
         IN  <<least>> \o SortedKeys(S \ {least})

\* the loop forgetting to advance last_offset
NextLastOffsetStale(last_offset, member_offset) == last_offset

\* lines 255-256: what the loop remembers of the member it has passed
NextLastOffset(last_offset, member_offset) == member_offset

\* lines 242-259: the loop of get_member_name, from key i on
RECURSIVE MemberLoop(_, _, _, _, _, _)
MemberLoop(members, keys, i, offset, last_offset, last_member) ==
    IF i > Len(keys) THEN "<N/A>"
    ELSE IF offset = keys[i] THEN members[keys[i]]
    ELSE IF offset < keys[i]
         THEN last_member \o "+" \o ToString(offset - last_offset)
    ELSE MemberLoop(members, keys, i + 1, offset,
                    NextLastOffset(last_offset, keys[i]), members[keys[i]])

\* lines 237-260
get_member_name(members, offset) ==
    MemberLoop(members, SortedKeys(DOMAIN members), 1, offset, 0, "")

\* lines 224-235: the constructor
TypeInfoConstruct ==
    /\ ti_pc = "new"
    /\ members_' = CollectMembers(fields, 1, [o \in {} |-> ""])
    /\ ti_pc' = "built"
    /\ UNCHANGED <<fields, ti_offset, ti_result, run_vars>>

\* lines 237-260, as called from the read hook of watch_object (line 283)
GetMemberName ==
    /\ ti_pc \in {"built", "asked"}
    /\ \E offset \in 0 .. MaxOffset + 1 :
         /\ ti_offset' = offset
         /\ ti_result' = get_member_name(members_, offset)
    /\ ti_pc' = "asked"
    /\ UNCHANGED <<fields, members_, run_vars>>

(***************************************************************************)
(* Specifications.                                                         *)
(***************************************************************************)
InitRun ==
    /\ pc = "start"
    /\ regions = {}
    /\ prot = [p \in Pages |-> Unmapped]
    /\ cells = [c \in CellNames |-> 0]
    /\ regs = [rsp |-> 0, rcx |-> 0, rdx |-> 0, rip |-> 0, gs_base |-> 0]
    /\ watermark = 0
    /\ context = NoContext
    /\ binary = [f \in Files |-> NoBinary]
    /\ module_data = NoImage
    /\ call_log = <<>>
    /\ io_failed = {}
    /\ exception = ""
    /\ exit_code = NoExit
    /\ printed = ""
    /\ syscall_hooks = 0
    /\ pending_hooks = 0
    /\ syscalls_executed = 0
    /\ handle_calls = <<>>

InitTypeInfo ==
    /\ members_ = [o \in {} |-> ""]
    /\ ti_pc = "new"
    /\ ti_offset = 0
    /\ ti_result = ""

Init ==
    /\ InitRun
    /\ strict_io \in BOOLEAN
    /\ InitTypeInfo
    /\ fields = <<>>

Next ==
    \/ SetupContext
    \/ MapExecutable
    \/ SetImageBase
    \/ MapNtdll
    \/ ResolveEntries
    \/ InstallHooks
    \/ ReserveExecutionContext
    \/ StartEmulation
    \/ GuestSyscall
    \/ SyscallHook
    \/ GuestHalts
    \/ GuestFaults
    \/ MainReturns
    \/ MainCatches

Spec == Init /\ [][Next]_vars

TypeInfoInit ==
    /\ InitRun
    /\ strict_io = TRUE
    /\ InitTypeInfo
    /\ fields \in FieldLists

TypeInfoNext ==
    \/ TypeInfoConstruct
    \/ GetMemberName

TypeInfoSpec == TypeInfoInit /\ [][TypeInfoNext]_vars

(***************************************************************************)
(* Properties.                                                             *)
(***************************************************************************)
\* the file the last map_module call was made for
LastFile ==
    IF binary["executable"].mapped /\ pc # "executable_mapped"
    THEN "ntdll" ELSE "executable"

MapModuleCalled == call_log # <<>>

IsDynamic(img) == IMAGE_DLLCHARACTERISTICS_DYNAMIC_BASE \in img.DllCharacteristics

Writes(log) == {i \in 1 .. Len(log) : log[i].call = "write_memory"}

FailedToMap ==
    /\ exception = "Failed to map binary"
    /\ pc \in {"throwing", "exited"}
    /\ ~binary[LastFile].mapped
    /\ Writes(call_log) = {}

MappedAt(base) ==
    /\ [base |-> base, size |-> module_data.SizeOfImage, tag |-> LastFile]
          \in regions
    /\ exception # "Failed to map binary"
    /\ binary[LastFile].mapped => binary[LastFile].image_base = base
    /\ Writes(call_log) # {}
    /\ \A i \in Writes(call_log) : i > 1 /\ call_log[1].call = "allocate_memory"
    /\ LET first_write == CHOOSE i \in Writes(call_log) :
                              \A j \in Writes(call_log) : i <= j
       IN  /\ call_log[first_write].addr = base
           /\ call_log[first_write - 1].call = "allocate_memory"
           /\ call_log[first_write - 1].addr = base
           /\ call_log[first_write - 1].ok

\* C1: map_module maps the image at its preferred base when allocating
\* [ImageBase, ImageBase + SizeOfImage) succeeds; when that fails and
\* DYNAMIC_BASE is not set it throws "Failed to map binary"; when that fails and
\* DYNAMIC_BASE is set it asks find_free_allocation_base(SizeOfImage), retries
\* there, returns that base as image_base, and throws if the retry fails.  The
\* image is written only to a base whose allocation succeeded.
C1_MapModuleBase ==
    MapModuleCalled =>
      LET img == module_data
          preferred == call_log[1]
      IN  /\ preferred = LogEntry("allocate_memory", img.ImageBase,
                                  img.SizeOfImage, preferred.ok)
          /\ preferred.ok => MappedAt(img.ImageBase)
          /\ (~preferred.ok /\ ~IsDynamic(img)) => FailedToMap
          /\ (~preferred.ok /\ IsDynamic(img)) =>
                /\ Len(call_log) >= 3
                /\ call_log[2].call = "find_free_allocation_base"
                /\ call_log[2].size = img.SizeOfImage
                /\ call_log[3] = LogEntry("allocate_memory", call_log[2].addr,
                                          img.SizeOfImage, call_log[3].ok)
                /\ call_log[3].ok => MappedAt(call_log[2].addr)
                /\ ~call_log[3].ok => FailedToMap

\* C1 witness: a DYNAMIC_BASE image whose preferred base was taken has been
\* mapped at the base find_free_allocation_base returned
C1_Witness ==
    /\ MapModuleCalled
    /\ pc = "ntdll_mapped"
    /\ ~call_log[1].ok
    /\ IsDynamic(module_data)
    /\ binary["ntdll"].mapped
    /\ binary["ntdll"].image_base # module_data.ImageBase
    /\ binary["ntdll"].image_base = call_log[2].addr

EmulationReached ==
    pc \in {"running", "in_syscall_hook", "start_returned"} \/ handle_calls # <<>>

\* C2: the process exits with code 0 exactly when the run completed normally and
\* with code 1, the message printed, after every fatal failure: a mapping
\* failure, a missing ntdll export, an emulator fault raised by start, an I/O
\* failure reading either input file.  No failure lets the run go on to
\* emulation.
C2_ExitCodes ==
    /\ pc # "crashed"
    /\ pc = "exited" =>
          /\ exit_code \in {0, 1}
          /\ exit_code = 0 <=> (exception = "" /\ io_failed = {})
          /\ exit_code = 1 => printed = exception /\ printed # ""
    /\ (exception # "" /\ exception # "emulator fault") => ~EmulationReached
    /\ io_failed # {} => ~EmulationReached

ControlFields ==
    /\ cells["TEB.NtTib.Self"] = context.teb
    /\ cells["TEB.ProcessEnvironmentBlock"] = context.peb
    /\ cells["PEB.ProcessParameters"] = context.process_params
    /\ cells["RTL_USER_PROCESS_PARAMETERS.Flags"] = PROCESS_PARAMETERS_FLAGS

\* C3: when emulation is started the guest memory holds TEB.NtTib.Self =
\* &TEB.NtTib, TEB.ProcessEnvironmentBlock = &PEB, PEB.ProcessParameters =
\* &RTL_USER_PROCESS_PARAMETERS, Flags = 0x6001 and PEB.ImageBaseAddress = the
\* executable's image_base; PEB.ImageBaseAddress is null until the executable
\* has been mapped, and no later step of the run changes any of these fields.
C3_ControlStructures ==
  io_failed = {} =>
    /\ pc = "context_ready" =>
          ControlFields /\ cells["PEB.ImageBaseAddress"] = 0
    /\ pc = "executable_mapped" => ControlFields
    /\ pc \in {"image_base_set", "ntdll_mapped", "entries_resolved",
               "hooks_installed", "ready", "running", "in_syscall_hook",
               "start_returned"} =>
          /\ ControlFields
          /\ cells["PEB.ImageBaseAddress"] = binary["executable"].image_base

\* C4: every export map_module records lies within
\* [image_base, image_base + size_of_image) of the MappedBinary it returns.
C4_ExportsInImage ==
    \A f \in Files :
      (binary[f].mapped /\ f \notin io_failed) =>
        \A n \in DOMAIN binary[f].exports :
          /\ binary[f].exports[n] >= binary[f].image_base
          /\ binary[f].exports[n] < binary[f].image_base + binary[f].size_of_image

MappingCompleted == pc \in {"executable_mapped", "ntdll_mapped"}

\* the pages of section i of the image just mapped, as the claim gives them
SectionPages(i) ==
    LET section == module_data.sections[i]
    IN  PagesOf(binary[LastFile].image_base + section.VirtualAddress,
                page_align_up(Max(section.SizeOfRawData, section.VirtualSize)))

\* EXECUTE -> exec, READ -> read, WRITE -> write, no bits -> none
DerivedPermissions(i) ==
    {perm \in {"exec", "read", "write"} :
        \/ perm = "exec"
             /\ IMAGE_SCN_MEM_EXECUTE \in module_data.sections[i].Characteristics
        \/ perm = "read"
             /\ IMAGE_SCN_MEM_READ \in module_data.sections[i].Characteristics
        \/ perm = "write"
             /\ IMAGE_SCN_MEM_WRITE \in module_data.sections[i].Characteristics}

SectionsOver(p) ==
    {i \in 1 .. Len(module_data.sections) : p \in SectionPages(i)}

LastSectionOver(p) ==
    CHOOSE i \in SectionsOver(p) : \A j \in SectionsOver(p) : j <= i

\* a layout a PE loader accepts: the sections' virtual extents
\* [VirtualAddress, VirtualAddress + VirtualSize) ascend without overlap, start
\* on page boundaries and lie within SizeOfImage, and the image was allocated
\* page-aligned
WellFormedLayout(img) ==
    /\ PageAligned(img.SizeOfImage)
    /\ \A i \in 1 .. Len(img.sections) :
         /\ PageAligned(img.sections[i].VirtualAddress)
         /\ img.sections[i].VirtualSize > 0
         /\ img.sections[i].VirtualAddress + img.sections[i].VirtualSize
               <= img.SizeOfImage
         /\ i > 1 => img.sections[i - 1].VirtualAddress
                       + img.sections[i - 1].VirtualSize
                         <= img.sections[i].VirtualAddress

\* C5 as stated: after map_module has processed all section headers, every page
\* of every section's range carries the permissions derived from that section's
\* own Characteristics, also for a section with SizeOfRawData = 0.  (Stated
\* here for the files that were read and hold a well-formed section layout.)
C5_SectionPermissionsOwn ==
    (MappingCompleted /\ io_failed = {} /\ WellFormedLayout(module_data)) =>
      \A i \in 1 .. Len(module_data.sections) :
        \A p \in SectionPages(i) :
          p \in Pages /\ prot[p] = DerivedPermissions(i)

\* C5 as amended: after map_module has processed all section headers, every
\* mapped page that lies in the range of one or more sections carries the
\* permissions derived from the Characteristics of the last of these sections
\* in header order, also when that section has SizeOfRawData = 0.
C5_SectionPermissionsLast ==
    MappingCompleted =>
      \A p \in Pages :
        (SectionsOver(p) # {} /\ prot[p] # Unmapped) =>
          prot[p] = DerivedPermissions(LastSectionOver(p))

\* C5 witness: an image whose padded first section reaches into the page of its
\* BSS section (SizeOfRawData = 0) has been mapped; the shared page is
\* read+write, the BSS section's permissions, and not the first section's
C5_Witness ==
    /\ pc = "executable_mapped"
    /\ io_failed = {}
    /\ module_data.sections = <<PaddedSection, BssSection>>
    /\ \E p \in Pages :
         /\ SectionsOver(p) = {1, 2}
         /\ prot[p] = {"read", "write"}
         /\ prot[p] # DerivedPermissions(1)

\* C6: every region the core maps (stack, KUSD page, GS segment, each PE image
\* at its preferred or fallback base) has a page-aligned base and length.
C6_RegionsPageAligned ==
    io_failed = {} =>
      \A r \in regions : PageAligned(r.base) /\ PageAligned(r.size)

FieldOffsets == {fields[i].offset : i \in 1 .. Len(fields)}

\* C7: get_member_name returns the field's name for an offset equal to a field's
\* offset, and name_of(field at o1) + "+" + (o - o1) for an offset o with
\* o1 < o < o2, o1 and o2 consecutive field offsets.
C7_FieldNameDecoding ==
    ti_pc = "asked" =>
      \A i \in 1 .. Len(fields) :
        /\ ti_offset = fields[i].offset => ti_result = fields[i].name
        /\ (/\ i < Len(fields)
            /\ fields[i].offset < ti_offset
            /\ ti_offset < fields[i + 1].offset) =>
              ti_result = fields[i].name \o "+"
                            \o ToString(ti_offset - fields[i].offset)

\* C7 witness: an offset between the second and the third field was decoded
C7_Witness ==
    /\ ti_pc = "asked"
    /\ Len(fields) >= 3
    /\ fields[2].offset > 0
    /\ fields[2].offset + 1 < fields[3].offset
    /\ ti_offset = fields[2].offset + 1
    /\ ti_result = "Self+1"

\* C8: get_member_name returns "<N/A>" for every offset before the first
\* recorded field offset, for every offset beyond the last field, and for every
\* offset when the field table is empty.
C8_NotAvailable ==
    (/\ ti_pc = "asked"
     /\ \/ \A o \in FieldOffsets : ti_offset < o
        \/ \A o \in FieldOffsets : ti_offset > o)
      => ti_result = "<N/A>"

ConstructionFinished ==
    pc \in {"ntdll_mapped", "entries_resolved", "hooks_installed", "ready",
            "running", "in_syscall_hook", "start_returned", "throwing",
            "exited"}

C10_SyscallDispatch ==
    /\ pc \in {"start", "context_ready", "executable_mapped", "image_base_set",
               "ntdll_mapped", "entries_resolved", "hooks_installed", "ready"}
          => handle_calls = <<>> /\ syscalls_executed = 0
    /\ pc = "in_syscall_hook" => Len(handle_calls) + 1 = syscalls_executed
    /\ pc # "in_syscall_hook" => Len(handle_calls) = syscalls_executed
    /\ \A i \in 1 .. Len(handle_calls) : handle_calls[i] = <<"emu", context>>

\* C10 witness: start has returned after the guest executed MaxSyscalls SYSCALLs
\* and handle_syscall ran for each
C10_Witness ==
    /\ pc = "start_returned"
    /\ syscalls_executed = MaxSyscalls
    /\ Len(handle_calls) = MaxSyscalls

====
